---- MODULE Spec2Model ----
(***************************************************************************)
(* Model of the graph-clustering layers of "Community Detection/tools":    *)
(*   dmon.py : DMoN, diverseDMoN, fairDMoN, groupDMoN (cluster assignment) *)
(*   gcn.py  : GCN, GCN_Original (node-embedding propagation)              *)
(*                                                                         *)
(* Numbers.  Tensor entries are exact extended rationals [n, d]: d > 0 is  *)
(* the fraction n/d in lowest terms, d = 0 is a non-finite IEEE value      *)
(* (n = 0: NaN, n = 1: +inf, n = -1: -inf), so that a division by zero     *)
(* yields what TensorFlow yields instead of an error.  Rounding is not     *)
(* modelled.  Logits are measured in units of ln 2, so exp(logit) is the   *)
(* rational 2^logit; a probability below 2^-UnderflowExp is the float 0.   *)
(* A value a + b*sqrt(r) (the collapse term) is the record [a, b, r].      *)
(* selu is kept symbolic: an output entry is a sequence of [coef, selu]    *)
(* pairs standing for the sum of coef * selu(arg).                         *)
(***************************************************************************)
EXTENDS Integers, Sequences, FiniteSets, TLC

VARIABLES pc, layer, inputs, losses, outcome

vars == <<pc, layer, inputs, losses, outcome>>

(***************************************************************************)
(* Bounds of the model.                                                    *)
(***************************************************************************)
MaxNodes == 4
MaxClusters == 2
MaxWeight == 2
MaxChannels == 1
\* a trained kernel entry large enough to saturate the softmax (in ln 2 units)
BigLogit == 200

(***************************************************************************)
(* Program constants.                                                      *)
(***************************************************************************)
\* float32, the dtype of tf.nn.softmax's result: exp(x) is 0 once x is below
\* about -150 ln 2 (the smallest subnormal is 2^-149)
UnderflowExp == 150

(***************************************************************************)
(* Extended rational arithmetic.                                           *)
(***************************************************************************)
Abs(i) == IF i < 0 THEN -i ELSE i
Sign(i) == IF i < 0 THEN -1 ELSE IF i = 0 THEN 0 ELSE 1

RECURSIVE GCD(_, _)
GCD(a, b) == IF b = 0 THEN a ELSE GCD(b, a % b)

Rat(num, den) ==
  IF den = 0 THEN [n |-> Sign(num), d |-> 0]
  ELSE LET g == GCD(Abs(num), Abs(den))
       IN  [n |-> (Sign(den) * num) \div g, d |-> Abs(den) \div g]

Zero == Rat(0, 1)
One == Rat(1, 1)
NaN == [n |-> 0, d |-> 0]
IsFinite(x) == x.d # 0
IsNaN(x) == x.d = 0 /\ x.n = 0

RAdd(x, y) ==
  IF x.d = 0 /\ y.d = 0 THEN (IF x.n = y.n THEN x ELSE NaN)
  ELSE IF x.d = 0 THEN x
  ELSE IF y.d = 0 THEN y
  ELSE Rat(x.n * y.d + y.n * x.d, x.d * y.d)
RNeg(x) == [n |-> -x.n, d |-> x.d]
RSub(x, y) == RAdd(x, RNeg(y))
RMul(x, y) == Rat(x.n * y.n, x.d * y.d)
RRecip(y) ==
  IF y.d = 0 THEN (IF y.n = 0 THEN NaN ELSE Zero)
  ELSE IF y.n = 0 THEN [n |-> 1, d |-> 0]
  ELSE [n |-> Sign(y.n) * y.d, d |-> Abs(y.n)]
RDiv(x, y) == RMul(x, RRecip(y))
RAbs(x) == [n |-> Abs(x.n), d |-> x.d]
\* x < y as floats compare: false as soon as a NaN is involved
RLess(x, y) ==
  /\ ~IsNaN(x) /\ ~IsNaN(y)
  /\ IF x.d = 0 /\ y.d = 0 THEN x.n < y.n
     ELSE IF x.d = 0 THEN x.n < 0
     ELSE IF y.d = 0 THEN y.n > 0
     ELSE x.n * y.d < y.n * x.d

RECURSIVE RSumTo(_, _)
RSumTo(f, i) == IF i = 0 THEN Zero ELSE RAdd(RSumTo(f, i - 1), f[i])

RECURSIVE Pow2(_)
Pow2(e) == IF e = 0 THEN 1 ELSE 2 * Pow2(e - 1)

\* the largest s with s*s dividing m (m >= 1), searched from s upwards
RECURSIVE SquarePart(_, _, _)
SquarePart(m, s, best) ==
  IF s * s > m THEN best
  ELSE SquarePart(m, s + 1, IF m % (s * s) = 0 THEN s ELSE best)

(***************************************************************************)
(* Values a + b*sqrt(r), r a square-free integer > 1 or b = r = 0, which   *)
(* makes the representation of a value unique.                             *)
(***************************************************************************)
Num(x) == [a |-> x, b |-> Zero, r |-> Zero]
\* b*sqrt(r) for a rational r = p/q >= 0 in lowest terms: with p = sp^2 * fp and
\* q = sq^2 * fq, sqrt(p/q) = sp * sqrt(fp * fq) / (sq * fq)
Surd(b, r) ==
  IF ~IsFinite(r) \/ ~IsFinite(b) THEN Num(NaN)
  ELSE IF r.n <= 0 \/ b.n = 0 THEN Num(Zero)
  ELSE LET sp == SquarePart(r.n, 1, 1)
           sq == SquarePart(r.d, 1, 1)
           fp == r.n \div (sp * sp)
           fq == r.d \div (sq * sq)
           coef == RMul(b, Rat(sp, sq * fq))
       IN  IF fp * fq = 1 THEN Num(coef)
           ELSE [a |-> Zero, b |-> coef, r |-> Rat(fp * fq, 1)]
\* tf.sqrt / tf.norm results
NumSqrt(x) == Surd(One, x)
\* products and quotients of values with a single term (c or c*sqrt(r))
MonoCoef(v) == IF v.b = Zero THEN v.a ELSE v.b
MonoRad(v) == IF v.b = Zero THEN One ELSE v.r
NumMulMono(v, w) == Surd(RMul(MonoCoef(v), MonoCoef(w)), RMul(MonoRad(v), MonoRad(w)))
NumDivRat(v, q) == [a |-> RDiv(v.a, q), b |-> RDiv(v.b, q), r |-> v.r]
NumMulRat(v, q) ==
  IF q = Zero THEN Num(RMul(v.a, q))
  ELSE [a |-> RMul(v.a, q), b |-> RMul(v.b, q), r |-> v.r]
NumAddRat(v, q) == [a |-> RAdd(v.a, q), b |-> v.b, r |-> v.r]
NumFinite(v) == IsFinite(v.a) /\ IsFinite(v.b) /\ IsFinite(v.r)

(***************************************************************************)
(* Dense matrices: [shape |-> <<rows, cols>>, v |-> [1..rows -> [1..cols   *)
(* -> value]]].  The operators below are TensorFlow's, applied where the   *)
(* shapes already agree (the callers check the shapes first).              *)
(***************************************************************************)
\* the sequence <<f[1], ..., f[n]>>, built entry by entry
Vec(n, f) ==
  LET RECURSIVE build(_)
      build(i) == IF i = 0 THEN <<>> ELSE Append(build(i - 1), f[i])
  IN  build(n)

\* the rows x cols matrix with entries f[i, j]
Mat(rows, cols, f) ==
  [shape |-> <<rows, cols>>,
   v |-> Vec(rows, [i \in 1..rows |-> Vec(cols, [j \in 1..cols |-> f[i, j]])])]

\* tf.matmul(X, Y)
MatMul(X, Y) ==
  LET m == X.shape[2]
  IN  Mat(X.shape[1], Y.shape[2],
          [i \in 1..X.shape[1], j \in 1..Y.shape[2] |->
             RSumTo([l \in 1..m |-> RMul(X.v[i][l], Y.v[l][j])], m)])

\* tf.transpose(X)
Transpose(X) ==
  Mat(X.shape[2], X.shape[1], [i \in 1..X.shape[2], j \in 1..X.shape[1] |-> X.v[j][i]])

\* X - Y, elementwise
MatSub(X, Y) ==
  Mat(X.shape[1], X.shape[2],
      [i \in 1..X.shape[1], j \in 1..X.shape[2] |-> RSub(X.v[i][j], Y.v[i][j])])

\* X / s for a scalar s
MatDivScalar(X, s) ==
  Mat(X.shape[1], X.shape[2],
      [i \in 1..X.shape[1], j \in 1..X.shape[2] |-> RDiv(X.v[i][j], s)])

\* tf.linalg.trace(X)
Trace(X) == RSumTo([i \in 1..X.shape[1] |-> X.v[i][i]], X.shape[1])

\* tf.math.reduce_sum(X, axis=0): the column sums, a vector of size cols
ReduceSumAxis0(X) ==
  Vec(X.shape[2],
      [j \in 1..X.shape[2] |-> RSumTo([i \in 1..X.shape[1] |-> X.v[i][j]], X.shape[1])])

\* tf.math.reduce_sum(v) of a vector
ReduceSum(v) == RSumTo(v, Len(v))

\* tf.reshape(v, (-1, 1))
ReshapeColumn(v) ==
  Mat(Len(v), 1, [i \in 1..Len(v), j \in 1..1 |-> v[i]])

MatFinite(X) == \A i \in 1..X.shape[1] : \A j \in 1..X.shape[2] : IsFinite(X.v[i][j])

(***************************************************************************)
(* The layers.  One record shape serves all six classes; a field a class   *)
(* does not have keeps its default.  kernel and bias are the weights of    *)
(* self.transform (Dense) built in build(); dropout_rate is 0, the         *)
(* constructor's default, which makes the Dropout layer the identity.      *)
(***************************************************************************)
DMoNKinds == {"DMoN", "diverseDMoN", "fairDMoN", "groupDMoN"}
BlendedKinds == {"diverseDMoN", "fairDMoN", "groupDMoN"}

NoMatrix == [shape |-> <<0, 0>>, v |-> <<>>]

NoLayer ==
  [kind |-> "none", built |-> FALSE,
   n_clusters |-> 0, collapse_regularization |-> Zero, do_unpooling |-> FALSE,
   num_nodes |-> 0, n_channels |-> 0, skip_connection |-> FALSE,
   activation |-> "none", kernel |-> NoMatrix, skip_weight |-> 0]

\* DMoN.__init__ and its three copies: the attributes are stored as given
DMoN_init(kind, n_clusters, collapse_regularization, do_unpooling) ==
  [NoLayer EXCEPT !.kind = kind, !.n_clusters = n_clusters,
                  !.collapse_regularization = collapse_regularization,
                  !.do_unpooling = do_unpooling]

\* Kernels of the Dense transform, d x k, in units of ln 2.  Row 1 carries the
\* weights, the other rows are zero.  Hard: a feature of +1 puts a node on the
\* first cluster, -1 on the last, with a saturated softmax.  Soft: no saturation.
HardKernel(d, k) ==
  Mat(d, k, [c \in 1..d, j \in 1..k |-> IF c = 1 THEN -((j - 1) * BigLogit) ELSE 0])
SoftKernel(d, k) ==
  Mat(d, k, [c \in 1..d, j \in 1..k |-> IF c = 1 THEN j - 1 ELSE 0])
Kernels(d, k) == {HardKernel(d, k), SoftKernel(d, k)}

\* build(): self.transform = Sequential([Dense(n_clusters), Dropout(rate)])
DMoN_build(self, kernel) == [self EXCEPT !.built = TRUE, !.kernel = kernel]

\* self.transform(features): Dense is features . kernel + bias (bias zeros),
\* Dropout with rate 0 passes it on
Transform(self, features) ==
  LET d == features.shape[2]
      RECURSIVE dot(_, _, _)
      dot(i, j, c) ==
        IF c = 0 THEN 0 ELSE dot(i, j, c - 1) + features.v[i][c] * self.kernel.v[c][j]
  IN  Mat(features.shape[1], self.kernel.shape[2],
          [i \in 1..features.shape[1], j \in 1..self.kernel.shape[2] |-> dot(i, j, d)])

\* the largest entry of row i of an integer matrix
RowMax(X, i) == CHOOSE m \in {X.v[i][j] : j \in 1..X.shape[2]} :
                  \A j \in 1..X.shape[2] : X.v[i][j] <= m

\* exp(l - max) in float arithmetic, for logits in units of ln 2
ExpBelowMax(gap) == IF gap >= UnderflowExp THEN Zero ELSE Rat(1, Pow2(gap))

\* tf.nn.softmax(logits, axis=1)
Softmax(logits) ==
  LET k == logits.shape[2]
      u(i, j) == ExpBelowMax(RowMax(logits, i) - logits.v[i][j])
      total(i) == RSumTo([j \in 1..k |-> u(i, j)], k)
  IN  Mat(logits.shape[1], k,
          [i \in 1..logits.shape[1], j \in 1..k |-> RDiv(u(i, j), total(i))])

\* an integer tensor's values as rationals
ToRat(X) ==
  Mat(X.shape[1], X.shape[2],
      [i \in 1..X.shape[1], j \in 1..X.shape[2] |-> Rat(X.v[i][j], 1)])

\* assignments / cluster_sizes: the [k] vector broadcasts over the rows
\* (dmon.py:84, 156, 279, 409); nothing guards the divisor
AssignmentsPooling(assignments, cluster_sizes) ==
  Mat(assignments.shape[1], assignments.shape[2],
      [i \in 1..assignments.shape[1], j \in 1..assignments.shape[2] |->
         RDiv(assignments.v[i][j], cluster_sizes[j])])

(***************************************************************************)
(* Adjacency tensors: [sparse, shape, v]; shape is its list of dimensions  *)
(* and v the entries of a rank-2 tensor.                                   *)
(***************************************************************************)
Rank(t) == Len(t.shape)

\* tf.sparse.reduce_sum(adjacency, axis=0), reshaped to a column
Degrees(adjacency) == ReshapeColumn(ReduceSumAxis0(ToRat(adjacency)))

\* tf.math.reduce_sum(degrees)
NumberOfEdges(degrees) == ReduceSum([i \in 1..degrees.shape[1] |-> degrees.v[i][1]])

\* The shapes under which the spectral block runs: sparse_dense_matmul(adjacency,
\* assignments) wants cols(adjacency) = n, the product of its transpose with
\* assignments wants rows(adjacency) = n, and assignments^T . degrees wants
\* len(degrees) = n.  TensorFlow raises InvalidArgumentError otherwise.
SpectralShapesOk(adjacency, assignments, degrees) ==
  /\ adjacency.shape[2] = assignments.shape[1]
  /\ adjacency.shape[1] = assignments.shape[1]
  /\ degrees.shape[1] = assignments.shape[1]

\* mutant: the normalizer is divided by number_of_edges only, not by 2 as well
SpectralLoss_FullNormalizer(adjacency, assignments, degrees, number_of_edges, loss_edges) ==
  LET Two == Rat(2, 1)
      graph_pooled == MatMul(Transpose(MatMul(ToRat(adjacency), assignments)), assignments)
      normalizer_left == MatMul(Transpose(assignments), degrees)
      normalizer_right == MatMul(Transpose(degrees), assignments)
      normalizer == MatDivScalar(MatMul(normalizer_left, normalizer_right), number_of_edges)
  IN  RDiv(RDiv(RNeg(Trace(MatSub(graph_pooled, normalizer))), Two), loss_edges)

\* The spectral block (dmon.py:93-105 and its copies).  number_of_edges divides
\* the normalizer, loss_edges divides the trace: the caller passes for each the
\* variable the source names at that place.
SpectralLoss(adjacency, assignments, degrees, number_of_edges, loss_edges) ==
  LET Two == Rat(2, 1)
      graph_pooled == MatMul(Transpose(MatMul(ToRat(adjacency), assignments)), assignments)
      normalizer_left == MatMul(Transpose(assignments), degrees)
      normalizer_right == MatMul(Transpose(degrees), assignments)
      normalizer == MatDivScalar(MatDivScalar(MatMul(normalizer_left, normalizer_right), Two),
                                 number_of_edges)
  IN  RDiv(RDiv(RNeg(Trace(MatSub(graph_pooled, normalizer))), Two), loss_edges)

\* mutant: the factor sqrt(n_clusters) is left out
CollapseLoss_NoSqrtK(self, cluster_sizes, number_of_nodes) ==
  LET k == Len(cluster_sizes)
      norm == NumSqrt(RSumTo([j \in 1..k |-> RMul(cluster_sizes[j], cluster_sizes[j])], k))
      scaled == NumDivRat(norm, Rat(number_of_nodes, 1))
  IN  NumMulRat(NumAddRat(scaled, Rat(-1, 1)), self.collapse_regularization)

\* collapse_regularization * (tf.norm(cluster_sizes) / number_of_nodes
\*                            * tf.sqrt(float(n_clusters)) - 1)
CollapseLoss(self, cluster_sizes, number_of_nodes) ==
  LET k == Len(cluster_sizes)
      norm == NumSqrt(RSumTo([j \in 1..k |-> RMul(cluster_sizes[j], cluster_sizes[j])], k))
      scaled == NumMulMono(NumDivRat(norm, Rat(number_of_nodes, 1)),
                           NumSqrt(Rat(self.n_clusters, 1)))
  IN  NumMulRat(NumAddRat(scaled, Rat(-1, 1)), self.collapse_regularization)

\* features_pooled: selu(assignments_pooling^T . features), then, with
\* do_unpooling, assignments_pooling . features_pooled.  An entry is the list of
\* its [coef, selu] terms.
FeaturesPooled(self, assignments_pooling, features) ==
  LET pooled == MatMul(Transpose(assignments_pooling), ToRat(features))
      n == assignments_pooling.shape[1]
      k == pooled.shape[1]
      d == pooled.shape[2]
      selu(j, c) == [coef |-> One, selu |-> pooled.v[j][c]]
  IN  IF self.do_unpooling
      THEN Mat(n, d, [i \in 1..n, c \in 1..d |->
                        Vec(k, [j \in 1..k |->
                                  [selu(j, c) EXCEPT !.coef = assignments_pooling.v[i][j]]])])
      ELSE Mat(k, d, [j \in 1..k, c \in 1..d |-> <<selu(j, c)>>])

(***************************************************************************)
(* What a call leaves behind: the loss terms it registered with add_loss,  *)
(* in order, and either the returned pair or the exception.                *)
(***************************************************************************)
Term(name, value) == [term |-> name, val |-> value]

NoOutcome ==
  [status |-> "none", exc |-> "", losses |-> <<>>,
   features_pooled |-> NoMatrix, assignments |-> NoMatrix, output |-> NoMatrix]

Raised(exc, registered) ==
  [NoOutcome EXCEPT !.status = "error", !.exc = exc, !.losses = registered]

Returned(registered, features_pooled, assignments) ==
  [NoOutcome EXCEPT !.status = "ok", !.losses = registered,
                    !.features_pooled = features_pooled, !.assignments = assignments]

\* what TensorFlow raises on an adjacency the spectral block cannot take:
\* tf.sparse.reduce_sum wants a SparseTensor, the products want matching shapes
AdjacencyError(adjacency) ==
  IF adjacency.sparse THEN "InvalidArgumentError" ELSE "TypeError"

(***************************************************************************)
(* The forward calls of dmon.py.                                           *)
(***************************************************************************)
\* mutant: the auxiliary block runs whatever lamda is
AuxiliaryBranch_Always(lamda) == TRUE
\* `if lamda != 0:` (dmon.py:165, 290, 419)
AuxiliaryBranch(lamda) == lamda # Zero
\* mutant: the modularity block runs whatever lamda is
ModularityBranch_Always(lamda) == TRUE
\* `if lamda != 1:` (dmon.py:197, 335, 460)
ModularityBranch(lamda) == lamda # One
\* `(1-lamda)*spectral_loss` (dmon.py:218, 477)
ModularityWeight(lamda) == RSub(One, lamda)
\* mutant: fairDMoN blends its modularity loss as the other variants do
FairModularityWeight_Blended(lamda) == RSub(One, lamda)
\* `self.add_loss(spectral_loss)` (dmon.py:357): fairDMoN adds it unscaled
FairModularityWeight(lamda) == One

\* DMoN.call(inputs), inputs = (features, adjacency)
DMoN_call(self, features, adjacency) ==
  LET assignments == Softmax(Transform(self, features))
      cluster_sizes == ReduceSumAxis0(assignments)
      assignments_pooling == AssignmentsPooling(assignments, cluster_sizes)
  IN  IF ~adjacency.sparse THEN Raised(AdjacencyError(adjacency), <<>>)
      ELSE
      LET degrees == Degrees(adjacency)
          number_of_nodes == adjacency.shape[2]
          number_of_edges == NumberOfEdges(degrees)
      IN  IF ~SpectralShapesOk(adjacency, assignments, degrees)
          THEN Raised(AdjacencyError(adjacency), <<>>)
          ELSE
          LET spectral_loss == SpectralLoss(adjacency, assignments, degrees,
                                            number_of_edges, number_of_edges)
              l1 == <<Term("spectral", Num(spectral_loss))>>
              l2 == Append(l1, Term("collapse",
                                    CollapseLoss(self, cluster_sizes, number_of_nodes)))
          IN  Returned(l2, FeaturesPooled(self, assignments_pooling, features), assignments)

\* diverseDMoN.call(inputs, lamda), inputs = (features, adjacency, diverce_adjacency)
diverseDMoN_call(self, features, adjacency, diverce_adjacency, lamda) ==
  LET assignments == Softmax(Transform(self, features))
      cluster_sizes == ReduceSumAxis0(assignments)
      assignments_pooling == AssignmentsPooling(assignments, cluster_sizes)
  IN  IF ~adjacency.sparse THEN Raised(AdjacencyError(adjacency), <<>>)
      ELSE
      LET modularity_degrees == Degrees(adjacency)
          modularity_number_of_edges == NumberOfEdges(modularity_degrees)
          degrees == Degrees(diverce_adjacency)
          number_of_edges == NumberOfEdges(degrees)
          auxOk == /\ diverce_adjacency.sparse
                   /\ SpectralShapesOk(diverce_adjacency, assignments, degrees)
          diversity_spectral_loss ==
            SpectralLoss(diverce_adjacency, assignments, degrees,
                         number_of_edges, modularity_number_of_edges)
          auxErr == AdjacencyError(diverce_adjacency)
          l1 == IF AuxiliaryBranch(lamda)
                THEN <<Term("diversity", Num(RMul(lamda, diversity_spectral_loss)))>>
                ELSE <<>>
      IN  IF AuxiliaryBranch(lamda) /\ ~auxOk THEN Raised(auxErr, <<>>)
          ELSE
          LET number_of_nodes == adjacency.shape[2]
              modOk == SpectralShapesOk(adjacency, assignments, modularity_degrees)
              spectral_loss == SpectralLoss(adjacency, assignments, modularity_degrees,
                                            modularity_number_of_edges,
                                            modularity_number_of_edges)
              l2 == IF ModularityBranch(lamda)
                    THEN Append(l1, Term("modularity",
                                         Num(RMul(ModularityWeight(lamda), spectral_loss))))
                    ELSE l1
          IN  IF ModularityBranch(lamda) /\ ~modOk THEN Raised(AdjacencyError(adjacency), l1)
              ELSE
              LET l3 == Append(l2, Term("collapse",
                                        CollapseLoss(self, cluster_sizes, number_of_nodes)))
              IN  Returned(l3, FeaturesPooled(self, assignments_pooling, features),
                           assignments)

\* fairDMoN.call(inputs, lamda), inputs = (features, adjacency, red_adjacency,
\* blue_adjacency)
fairDMoN_call(self, features, adjacency, red_adjacency, blue_adjacency, lamda) ==
  LET assignments == Softmax(Transform(self, features))
      cluster_sizes == ReduceSumAxis0(assignments)
      assignments_pooling == AssignmentsPooling(assignments, cluster_sizes)
  IN  IF ~adjacency.sparse THEN Raised(AdjacencyError(adjacency), <<>>)
      ELSE
      LET modularity_degrees == Degrees(adjacency)
          modularity_number_of_edges == NumberOfEdges(modularity_degrees)
          red_degrees == Degrees(red_adjacency)
          blue_degrees == Degrees(blue_adjacency)
          auxOk == /\ red_adjacency.sparse
                   /\ SpectralShapesOk(red_adjacency, assignments, red_degrees)
                   /\ blue_adjacency.sparse
                   /\ SpectralShapesOk(blue_adjacency, assignments, blue_degrees)
          red_spectral_loss ==
            SpectralLoss(red_adjacency, assignments, red_degrees,
                         NumberOfEdges(red_degrees), modularity_number_of_edges)
          blue_spectral_loss ==
            SpectralLoss(blue_adjacency, assignments, blue_degrees,
                         NumberOfEdges(blue_degrees), modularity_number_of_edges)
          fairness_spectral_loss == RSub(red_spectral_loss, blue_spectral_loss)
          auxErr == IF red_adjacency.sparse
                       /\ SpectralShapesOk(red_adjacency, assignments, red_degrees)
                    THEN AdjacencyError(blue_adjacency)
                    ELSE AdjacencyError(red_adjacency)
          l1 == IF AuxiliaryBranch(lamda)
                THEN <<Term("fairness", Num(RAbs(RMul(lamda, fairness_spectral_loss))))>>
                ELSE <<>>
      IN  IF AuxiliaryBranch(lamda) /\ ~auxOk THEN Raised(auxErr, <<>>)
          ELSE
          LET modOk == SpectralShapesOk(adjacency, assignments, modularity_degrees)
              spectral_loss == SpectralLoss(adjacency, assignments, modularity_degrees,
                                            modularity_number_of_edges,
                                            modularity_number_of_edges)
              l2 == IF ModularityBranch(lamda)
                    THEN Append(l1, Term("modularity",
                                         Num(RMul(FairModularityWeight(lamda), spectral_loss))))
                    ELSE l1
          IN  IF ModularityBranch(lamda) /\ ~modOk THEN Raised(AdjacencyError(adjacency), l1)
              ELSE
              LET number_of_nodes == adjacency.shape[2]
                  l3 == Append(l2, Term("collapse",
                                        CollapseLoss(self, cluster_sizes, number_of_nodes)))
              IN  Returned(l3, FeaturesPooled(self, assignments_pooling, features),
                           assignments)

\* groupDMoN.call(inputs, lamda), inputs = (features, adjacency, red_adjacency)
groupDMoN_call(self, features, adjacency, red_adjacency, lamda) ==
  LET assignments == Softmax(Transform(self, features))
      cluster_sizes == ReduceSumAxis0(assignments)
      assignments_pooling == AssignmentsPooling(assignments, cluster_sizes)
  IN  IF ~adjacency.sparse THEN Raised(AdjacencyError(adjacency), <<>>)
      ELSE
      LET modularity_degrees == Degrees(adjacency)
          modularity_number_of_edges == NumberOfEdges(modularity_degrees)
          degrees == Degrees(red_adjacency)
          number_of_edges == NumberOfEdges(degrees)
          auxOk == /\ red_adjacency.sparse
                   /\ SpectralShapesOk(red_adjacency, assignments, degrees)
          red_spectral_loss ==
            SpectralLoss(red_adjacency, assignments, degrees,
                         number_of_edges, modularity_number_of_edges)
          auxErr == AdjacencyError(red_adjacency)
          l1 == IF AuxiliaryBranch(lamda)
                THEN <<Term("group", Num(RMul(lamda, red_spectral_loss)))>>
                ELSE <<>>
      IN  IF AuxiliaryBranch(lamda) /\ ~auxOk THEN Raised(auxErr, <<>>)
          ELSE
          LET number_of_nodes == adjacency.shape[2]
              modOk == SpectralShapesOk(adjacency, assignments, modularity_degrees)
              spectral_loss == SpectralLoss(adjacency, assignments, modularity_degrees,
                                            modularity_number_of_edges,
                                            modularity_number_of_edges)
              l2 == IF ModularityBranch(lamda)
                    THEN Append(l1, Term("modularity",
                                         Num(RMul(ModularityWeight(lamda), spectral_loss))))
                    ELSE l1
          IN  IF ModularityBranch(lamda) /\ ~modOk THEN Raised(AdjacencyError(adjacency), l1)
              ELSE
              LET l3 == Append(l2, Term("collapse",
                                        CollapseLoss(self, cluster_sizes, number_of_nodes)))
              IN  Returned(l3, FeaturesPooled(self, assignments_pooling, features),
                           assignments)

(***************************************************************************)
(* gcn.py.  An activation specification is one of: a known name ("selu"),  *)
(* an unknown name ("bogus"), a tf.keras.layers.Activation object          *)
(* ("object"), None ("None"), or a value of another type ("int").          *)
(***************************************************************************)
ActivationSpecs == {"selu", "bogus", "object", "None", "int"}
WellFormedSpecs == {"selu", "object", "None"}

\* both classes derive from tf.keras.layers.Layer only
IsInstanceOf(kind, class) == kind = class \/ class = "Layer"

Constructed(self) == [status |-> "ok", exc |-> "", layer |-> self]
CtorRaised(exc) == [status |-> "error", exc |-> exc, layer |-> NoLayer]

\* tf.keras.layers.Activation(name): activations.get raises ValueError on a
\* name it does not know
KnownActivationName(name) == name = "selu"

\* GCN.__init__(num_nodes, n_channels, activation, skip_connection)
GCN_init(num_nodes, n_channels, activation, skip_connection) ==
  LET self == [NoLayer EXCEPT !.kind = "GCN", !.num_nodes = num_nodes,
                              !.n_channels = n_channels,
                              !.skip_connection = skip_connection]
  IN  IF activation \in {"selu", "bogus"}                     \* isinstance(activation, str)
      THEN IF KnownActivationName(activation)
           THEN Constructed([self EXCEPT !.activation = activation])
           ELSE CtorRaised("ValueError")
      ELSE IF activation = "object"
      THEN Constructed([self EXCEPT !.activation = "object"])
      ELSE IF activation = "None"
      THEN Constructed([self EXCEPT !.activation = "identity"])
      ELSE CtorRaised("ValueError")

\* GCN_Original.__init__(n_channels, activation, skip_connection): super(GCN, self)
\* wants self to be a GCN; isinstance(tf.keras.layers.Activation) has one argument
GCN_Original_init(n_channels, activation, skip_connection) ==
  LET self == [NoLayer EXCEPT !.kind = "GCN_Original", !.n_channels = n_channels,
                              !.skip_connection = skip_connection]
  IN  IF ~IsInstanceOf("GCN_Original", "GCN") THEN CtorRaised("TypeError")
      ELSE IF activation \in {"selu", "bogus"}
      THEN IF KnownActivationName(activation)
           THEN Constructed([self EXCEPT !.activation = activation])
           ELSE CtorRaised("ValueError")
      ELSE CtorRaised("TypeError")

\* GCN.build: kernel (num_nodes x n_channels), bias zeros, skip_weight or 0
GCN_build(self, kernel, skip_weight) ==
  [self EXCEPT !.built = TRUE, !.kernel = kernel,
               !.skip_weight = IF self.skip_connection THEN skip_weight ELSE 0]

\* self.activation(output), entry by entry; the function stays symbolic
Activate(self, output) ==
  Mat(output.shape[1], output.shape[2],
      [i \in 1..output.shape[1], j \in 1..output.shape[2] |->
         [act |-> self.activation, arg |-> output.v[i][j]]])

GCNReturned(output) == [NoOutcome EXCEPT !.status = "ok", !.output = output]

\* the propagation both calls share: sparse_dense_matmul(norm_adjacency, output),
\* then the skip term (self.skip_weight is 0 without skip_connection)
Propagate(self, norm_adjacency, output) ==
  LET prop == MatMul(ToRat(norm_adjacency), output)
  IN  Mat(prop.shape[1], prop.shape[2],
          [i \in 1..prop.shape[1], j \in 1..prop.shape[2] |->
             IF self.skip_connection
             THEN RAdd(prop.v[i][j], Rat(self.skip_weight, 1))
             ELSE prop.v[i][j]])

\* GCN.call(inputs): the features are ignored, the kernel is propagated
GCN_call(self, features, norm_adjacency) ==
  IF ~norm_adjacency.sparse THEN Raised("AssertionError", <<>>)
  ELSE IF Rank(norm_adjacency) # 2 THEN Raised("AssertionError", <<>>)
  ELSE LET output == ToRat(self.kernel)
       IN  IF norm_adjacency.shape[2] # output.shape[1]
           THEN Raised("InvalidArgumentError", <<>>)
           ELSE GCNReturned(Activate(self, Propagate(self, norm_adjacency, output)))

\* GCN_Original.call(inputs): features . kernel + bias, propagated.  features is
\* a dense rank-2 tensor in every input of the model.
GCN_Original_call(self, features, norm_adjacency) ==
  IF ~norm_adjacency.sparse THEN Raised("AssertionError", <<>>)
  ELSE IF Rank(norm_adjacency) # 2 THEN Raised("AssertionError", <<>>)
  ELSE IF features.shape[1] # norm_adjacency.shape[1] THEN Raised("AssertionError", <<>>)
  ELSE IF features.shape[2] # self.kernel.shape[1] THEN Raised("InvalidArgumentError", <<>>)
  ELSE LET output == MatMul(ToRat(features), ToRat(self.kernel))
       IN  IF norm_adjacency.shape[2] # output.shape[1]
           THEN Raised("InvalidArgumentError", <<>>)
           ELSE GCNReturned(Activate(self, Propagate(self, norm_adjacency, output)))

(***************************************************************************)
(* The inputs the model draws.                                             *)
(***************************************************************************)
\* d, the feature width (a bound of the model)
FeatureDim == 1
NodeCounts == (MaxNodes - 1)..MaxNodes
ClusterCounts == {MaxClusters}

Tensor(sparse, rows, cols, f) ==
  [sparse |-> sparse, shape |-> <<rows, cols>>, v |-> Mat(rows, cols, f).v]
NoTensor == [sparse |-> FALSE, shape |-> <<0, 0>>, v |-> <<>>]

\* features: the first a nodes carry +1, the others -1 (every column alike); or
\* all nodes carry 0
SplitFeatures(n, a) ==
  Tensor(FALSE, n, FeatureDim, [i \in 1..n, c \in 1..FeatureDim |-> IF i <= a THEN 1 ELSE -1])
ZeroFeatures(n) ==
  Tensor(FALSE, n, FeatureDim, [i \in 1..n, c \in 1..FeatureDim |-> 0])
FeatureSet(n) == {SplitFeatures(n, a) : a \in {0, n \div 2, n}} \cup {ZeroFeatures(n)}

\* the n-cycle 1-2-...-n-1 with edge weight w
Ring(sparse, n, w) ==
  Tensor(sparse, n, n,
         [i \in 1..n, j \in 1..n |-> IF j = (i % n) + 1 \/ i = (j % n) + 1 THEN w ELSE 0])
\* the single undirected edge 1-2, and the single directed edge 1->2
Edge12(n) ==
  Tensor(TRUE, n, n, [i \in 1..n, j \in 1..n |-> IF {i, j} = {1, 2} THEN 1 ELSE 0])
Arc12(n) ==
  Tensor(TRUE, n, n, [i \in 1..n, j \in 1..n |-> IF i = 1 /\ j = 2 THEN 1 ELSE 0])
Empty(n) ==
  Tensor(TRUE, n, n, [i \in 1..n, j \in 1..n |-> 0])
\* a rows x cols matrix with ones next to the diagonal
Rect(rows, cols) ==
  Tensor(TRUE, rows, cols,
         [i \in 1..rows, j \in 1..cols |-> IF j = i + 1 \/ i = j + 1 THEN 1 ELSE 0])
\* a sparse tensor of another rank
OfRank(shape) == [sparse |-> TRUE, shape |-> shape, v |-> <<>>]

WellShaped(n) ==
  {Ring(TRUE, n, w) : w \in 1..MaxWeight} \cup {Edge12(n), Arc12(n), Empty(n)}
\* a square matrix over other nodes, a non-square matrix, a dense matrix
IllShaped(n) ==
  {Ring(TRUE, n + 1, 1), Rect(n, n + 1), Ring(FALSE, n, 1)}
PrimarySet(n) == WellShaped(n) \cup IllShaped(n)
AuxiliarySet(n) ==
  {Ring(TRUE, n, w) : w \in 1..MaxWeight} \cup {Empty(n), Ring(TRUE, n + 1, 1)}
BlueSet(n) == {Ring(TRUE, n, 1), Empty(n), Ring(TRUE, n + 1, 1)}
GCNAdjacencySet(n) ==
  PrimarySet(n) \cup {Rect(n + 1, n), OfRank(<<n>>), OfRank(<<n, n, n>>)}

Lamdas == {Zero, Rat(1, 2), One}
CollapseWeights == {Rat(1, 10)}

GCNKernels(n, c) ==
  {Mat(n, c, [i \in 1..n, j \in 1..c |-> 1]),
   Mat(n, c, [i \in 1..n, j \in 1..c |-> i])}
SkipWeights == {1}

\* the arguments of the last constructor or forward call
NoInputs ==
  [class |-> "none", activation |-> "none", features |-> NoTensor,
   adjacency |-> NoTensor, aux1 |-> NoTensor, aux2 |-> NoTensor, lamda |-> Zero]

(***************************************************************************)
(* The state machine: a layer is constructed, built, and called once.      *)
(* Keras empties the layer's loss ledger when a call starts, so `losses`   *)
(* after a call holds what that call registered.                           *)
(***************************************************************************)
Init ==
  /\ pc = "init"
  /\ layer = NoLayer
  /\ inputs = NoInputs
  /\ losses = <<>>
  /\ outcome = NoOutcome

Construct_DMoN ==
  /\ pc = "init"
  /\ \E kind \in DMoNKinds, k \in ClusterCounts, w \in CollapseWeights, u \in BOOLEAN :
       /\ layer' = DMoN_init(kind, k, w, u)
       /\ inputs' = [NoInputs EXCEPT !.class = kind]
  /\ pc' = "constructed"
  /\ UNCHANGED <<losses, outcome>>

Construct_GCN ==
  /\ pc = "init"
  /\ \E n \in NodeCounts, c \in 1..MaxChannels, a \in ActivationSpecs, s \in BOOLEAN :
       LET r == GCN_init(n, c, a, s)
       IN  /\ layer' = r.layer
           /\ pc' = IF r.status = "ok" THEN "constructed" ELSE "failed"
           /\ outcome' = [NoOutcome EXCEPT !.status = r.status, !.exc = r.exc]
           /\ inputs' = [NoInputs EXCEPT !.class = "GCN", !.activation = a]
  /\ UNCHANGED losses

Construct_GCN_Original ==
  /\ pc = "init"
  /\ \E c \in 1..MaxChannels, a \in ActivationSpecs, s \in BOOLEAN :
       LET r == GCN_Original_init(c, a, s)
       IN  /\ layer' = r.layer
           /\ pc' = IF r.status = "ok" THEN "constructed" ELSE "failed"
           /\ outcome' = [NoOutcome EXCEPT !.status = r.status, !.exc = r.exc]
           /\ inputs' = [NoInputs EXCEPT !.class = "GCN_Original", !.activation = a]
  /\ UNCHANGED losses

Build_DMoN ==
  /\ pc = "constructed"
  /\ layer.kind \in DMoNKinds
  /\ \E kernel \in Kernels(FeatureDim, layer.n_clusters) :
       layer' = DMoN_build(layer, kernel)
  /\ pc' = "built"
  /\ UNCHANGED <<inputs, losses, outcome>>

Build_GCN ==
  /\ pc = "constructed"
  /\ layer.kind = "GCN"
  /\ \E kernel \in GCNKernels(layer.num_nodes, layer.n_channels), w \in SkipWeights :
       layer' = GCN_build(layer, kernel, w)
  /\ pc' = "built"
  /\ UNCHANGED <<inputs, losses, outcome>>

Finish(r, in) ==
  /\ outcome' = r
  /\ losses' = outcome'.losses
  /\ inputs' = [in EXCEPT !.class = layer.kind]
  /\ pc' = "done"
  /\ UNCHANGED layer

Call_DMoN ==
  /\ pc = "built"
  /\ layer.kind = "DMoN"
  /\ \E n \in NodeCounts :
       \E features \in FeatureSet(n), adjacency \in PrimarySet(n) :
         Finish(DMoN_call(layer, features, adjacency),
                [NoInputs EXCEPT !.features = features, !.adjacency = adjacency])

Call_diverseDMoN ==
  /\ pc = "built"
  /\ layer.kind = "diverseDMoN"
  /\ \E n \in NodeCounts, lamda \in Lamdas :
       \E features \in FeatureSet(n), adjacency \in PrimarySet(n),
          diverce_adjacency \in AuxiliarySet(n) :
         Finish(diverseDMoN_call(layer, features, adjacency, diverce_adjacency, lamda),
                [NoInputs EXCEPT !.features = features, !.adjacency = adjacency,
                                 !.aux1 = diverce_adjacency, !.lamda = lamda])

Call_fairDMoN ==
  /\ pc = "built"
  /\ layer.kind = "fairDMoN"
  /\ \E n \in NodeCounts, lamda \in Lamdas :
       \E features \in FeatureSet(n), adjacency \in PrimarySet(n),
          red_adjacency \in AuxiliarySet(n), blue_adjacency \in BlueSet(n) :
         Finish(fairDMoN_call(layer, features, adjacency, red_adjacency,
                              blue_adjacency, lamda),
                [NoInputs EXCEPT !.features = features, !.adjacency = adjacency,
                                 !.aux1 = red_adjacency, !.aux2 = blue_adjacency,
                                 !.lamda = lamda])

Call_groupDMoN ==
  /\ pc = "built"
  /\ layer.kind = "groupDMoN"
  /\ \E n \in NodeCounts, lamda \in Lamdas :
       \E features \in FeatureSet(n), adjacency \in PrimarySet(n),
          red_adjacency \in AuxiliarySet(n) :
         Finish(groupDMoN_call(layer, features, adjacency, red_adjacency, lamda),
                [NoInputs EXCEPT !.features = features, !.adjacency = adjacency,
                                 !.aux1 = red_adjacency, !.lamda = lamda])

Call_GCN ==
  /\ pc = "built"
  /\ layer.kind = "GCN"
  /\ \E norm_adjacency \in GCNAdjacencySet(layer.num_nodes) :
       Finish(GCN_call(layer, NoTensor, norm_adjacency),
              [NoInputs EXCEPT !.adjacency = norm_adjacency])

Next ==
  \/ Construct_DMoN
  \/ Construct_GCN
  \/ Construct_GCN_Original
  \/ Build_DMoN
  \/ Build_GCN
  \/ Call_DMoN
  \/ Call_diverseDMoN
  \/ Call_fairDMoN
  \/ Call_groupDMoN
  \/ Call_GCN

Spec == Init /\ [][Next]_vars

(***************************************************************************)
(* Vocabulary of the properties.                                           *)
(***************************************************************************)
Called(kinds) == pc = "done" /\ layer.kind \in kinds
Succeeded == outcome.status = "ok"
Failed == outcome.status = "error"
Values(ledger) == [i \in 1..Len(ledger) |-> ledger[i].val]
Terms(ledger) == [i \in 1..Len(ledger) |-> ledger[i].term]
\* number of feature rows of the call: the node count of the call
Nodes == inputs.features.shape[1]
IsNodeSquare(t) == t.sparse /\ t.shape = <<Nodes, Nodes>>
\* the spectral-loss routine of the plain variant applied to one adjacency
SharedSpectralLoss(adjacency, assignments) ==
  LET degrees == Degrees(adjacency)
  IN  SpectralLoss(adjacency, assignments, degrees,
                   NumberOfEdges(degrees), NumberOfEdges(degrees))
\* the adjacency with every edge weight multiplied by c
Rescaled(t, c) ==
  Tensor(t.sparse, t.shape[1], t.shape[2],
         [i \in 1..t.shape[1], j \in 1..t.shape[2] |-> c * t.v[i][j]])

(***************************************************************************)
(* C1.  A diverseDMoN, fairDMoN or groupDMoN call with lamda = 0 ends as   *)
(* the DMoN call on the same features, weights and primary adjacency ends: *)
(* same status, same two outputs, and the same loss values in the same     *)
(* order (on success one spectral loss of the primary adjacency and one    *)
(* weighted collapse loss), whatever the auxiliary adjacencies are.        *)
(***************************************************************************)
C1_LamdaZeroIsPlain ==
  (Called(BlendedKinds) /\ inputs.lamda = Zero) =>
    LET plain == DMoN_call(layer, inputs.features, inputs.adjacency)
    IN  /\ outcome.status = plain.status
        /\ outcome.features_pooled = plain.features_pooled
        /\ outcome.assignments = plain.assignments
        /\ Values(losses) = Values(plain.losses)
        /\ Succeeded => Len(losses) = 2

\* a successful lamda = 0 call of each blended variant whose auxiliary adjacency
\* differs from the primary one, and one whose auxiliary adjacency is ill-shaped
C1_Witness ==
  /\ Called({"fairDMoN"}) /\ inputs.lamda = Zero /\ Succeeded
  /\ inputs.aux1 # inputs.adjacency
  /\ ~IsNodeSquare(inputs.aux2)
  /\ IsFinite(losses[1].val.a) /\ losses[1].val.a # Zero

(***************************************************************************)
(* C2.  A diverseDMoN or groupDMoN call with lamda = 1 never registers the *)
(* modularity term; when it succeeds its ledger is the diversity/group     *)
(* spectral term, with weight 1, followed by the collapse term.            *)
(***************************************************************************)
C2_LamdaOneNoModularity ==
  (Called({"diverseDMoN", "groupDMoN"}) /\ inputs.lamda = One) =>
    /\ \A i \in 1..Len(losses) : losses[i].term # "modularity"
    /\ Succeeded =>
         /\ Terms(losses) =
              <<IF layer.kind = "diverseDMoN" THEN "diversity" ELSE "group", "collapse">>
         /\ losses[1].val =
              Num(SpectralLoss(inputs.aux1, outcome.assignments, Degrees(inputs.aux1),
                               NumberOfEdges(Degrees(inputs.aux1)),
                               NumberOfEdges(Degrees(inputs.adjacency))))

C2_Witness ==
  /\ Called({"groupDMoN"}) /\ inputs.lamda = One /\ Succeeded
  /\ Len(losses) = 2
  /\ IsFinite(losses[1].val.a) /\ losses[1].val.a # Zero

(***************************************************************************)
(* C3.  Each auxiliary spectral loss is the shared routine applied to the  *)
(* auxiliary adjacency alone: normalizer and final division both use the   *)
(* edge count of that adjacency.  Stated on the registered term: lamda     *)
(* times that loss (diversity, group), |lamda * (red - blue)| (fairness).  *)
(***************************************************************************)
C3_AuxiliaryLossIsSharedRoutine ==
  (Called(BlendedKinds) /\ Succeeded /\ inputs.lamda # Zero) =>
    LET S == outcome.assignments
        own1 == SharedSpectralLoss(inputs.aux1, S)
        own2 == SharedSpectralLoss(inputs.aux2, S)
    IN  losses[1].val =
          IF layer.kind = "fairDMoN"
          THEN Num(RAbs(RMul(inputs.lamda, RSub(own1, own2))))
          ELSE Num(RMul(inputs.lamda, own1))

(***************************************************************************)
(* C4.  No forward call of a cluster-assignment variant ends in an error   *)
(* with loss terms registered by that call.                                *)
(***************************************************************************)
C4_NoLossBeforeError ==
  (Called(DMoNKinds) /\ Failed) => losses = <<>>

(***************************************************************************)
(* C5.  In every successful forward call the pooling weights and the       *)
(* pooled features are well defined: no entry is the result of a division  *)
(* by a zero cluster size.                                                 *)
(***************************************************************************)
C5_PoolingWellDefined ==
  (Called(DMoNKinds) /\ Succeeded) =>
    \A i \in 1..outcome.features_pooled.shape[1] :
      \A c \in 1..outcome.features_pooled.shape[2] :
        \A t \in 1..Len(outcome.features_pooled.v[i][c]) :
          /\ IsFinite(outcome.features_pooled.v[i][c][t].coef)
          /\ IsFinite(outcome.features_pooled.v[i][c][t].selu)

(***************************************************************************)
(* C6.  Every spectral term a successful call registers is unchanged when  *)
(* all edge weights of the adjacency that feeds it are multiplied by a     *)
(* positive constant c: the plain loss and the modularity term under a     *)
(* rescaled primary adjacency, the diversity, fairness (red, blue) and     *)
(* group terms under a rescaled auxiliary adjacency of their own.          *)
(***************************************************************************)
C6_SpectralScaleInvariant ==
  (Called(DMoNKinds) /\ Succeeded) =>
    \A c \in 2..3 :
      LET f == inputs.features
          A == inputs.adjacency
          A1 == inputs.aux1
          A2 == inputs.aux2
          lam == inputs.lamda
          first(r) == r.losses[1].val
          modularity(r) == r.losses[IF lam = Zero THEN 1 ELSE 2].val
          here == outcome
      IN  CASE layer.kind = "DMoN" ->
                 first(DMoN_call(layer, f, Rescaled(A, c))) = first(here)
            [] layer.kind = "diverseDMoN" ->
                 /\ lam # Zero =>
                      first(diverseDMoN_call(layer, f, A, Rescaled(A1, c), lam)) = first(here)
                 /\ (lam = Zero /\ IsNodeSquare(A)) =>
                      modularity(diverseDMoN_call(layer, f, Rescaled(A, c), A1, lam))
                        = modularity(here)
            [] layer.kind = "groupDMoN" ->
                 /\ lam # Zero =>
                      first(groupDMoN_call(layer, f, A, Rescaled(A1, c), lam)) = first(here)
                 /\ (lam = Zero /\ IsNodeSquare(A)) =>
                      modularity(groupDMoN_call(layer, f, Rescaled(A, c), A1, lam))
                        = modularity(here)
            [] layer.kind = "fairDMoN" ->
                 /\ lam # Zero =>
                      /\ first(fairDMoN_call(layer, f, A, Rescaled(A1, c), A2, lam))
                           = first(here)
                      /\ first(fairDMoN_call(layer, f, A, A1, Rescaled(A2, c), lam))
                           = first(here)
                 /\ (lam = Zero /\ IsNodeSquare(A)) =>
                      modularity(fairDMoN_call(layer, f, Rescaled(A, c), A1, A2, lam))
                        = modularity(here)

\* the part of C6 that is about the plain variant and the primary adjacency
C6_PlainScaleInvariant ==
  (Called({"DMoN"}) /\ Succeeded) =>
    \A c \in 2..3 :
      DMoN_call(layer, inputs.features, Rescaled(inputs.adjacency, c)).losses[1].val
        = losses[1].val

(***************************************************************************)
(* C7.  The plain variant on the unweighted 4-ring with k = 2.             *)
(***************************************************************************)
RingBipartition ==
  <<<<One, Zero>>, <<One, Zero>>, <<Zero, One>>, <<Zero, One>>>>
RingUniform ==
  LET h == Rat(1, 2) IN <<<<h, h>>, <<h, h>>, <<h, h>>, <<h, h>>>>
\* the state after the plain call on the 4-ring that assigned the bipartition
OnRingBipartition ==
  /\ Called({"DMoN"}) /\ Succeeded
  /\ layer.n_clusters = 2
  /\ inputs.adjacency = Ring(TRUE, 4, 1)
  /\ outcome.assignments.v = RingBipartition
\* the same layer's call on the same ring with features that give every node
\* the assignment (1/2, 1/2)
RingUniformCall == DMoN_call(layer, ZeroFeatures(4), Ring(TRUE, 4, 1))

\* C7 as claimed: the spectral loss of the bipartition is strictly smaller than
\* the spectral loss of the uniform assignment.
C7_BipartitionStrictlyBetter ==
  OnRingBipartition =>
    /\ RingUniformCall.assignments.v = RingUniform
    /\ RLess(losses[1].val.a, RingUniformCall.losses[1].val.a)

\* C7 as amended: on the 4-ring with k = 2 the plain variant's spectral loss of
\* the bipartition equals its spectral loss of the uniform assignment; both are
\* -1/8, so the bipartition's loss is not strictly smaller.
C7_BipartitionEqualsUniform ==
  OnRingBipartition =>
    /\ RingUniformCall.assignments.v = RingUniform
    /\ losses[1].term = "spectral"
    /\ losses[1].val = Num(Rat(-1, 8))
    /\ RingUniformCall.losses[1].val = losses[1].val

C7_Witness ==
  /\ OnRingBipartition
  /\ RingUniformCall.status = "ok"
  /\ RingUniformCall.assignments.v = RingUniform

(***************************************************************************)
(* C8.  A GCN / GCN_Original forward call whose adjacency is not a sparse, *)
(* 2-dimensional, square matrix is rejected and produces no output.        *)
(***************************************************************************)
C8_RejectsNonSquareAdjacency ==
  (Called({"GCN", "GCN_Original"})
     /\ ~(/\ inputs.adjacency.sparse
          /\ Rank(inputs.adjacency) = 2
          /\ inputs.adjacency.shape[1] = inputs.adjacency.shape[2])) =>
    Failed /\ outcome.output = NoMatrix

(***************************************************************************)
(* C9.  Constructing a GCN or a GCN_Original fails with ValueError exactly *)
(* when the activation specification is malformed; with a well-formed one  *)
(* (a known name, an Activation object, None) it succeeds.                 *)
(***************************************************************************)
C9_ConstructionFailsIffMalformed ==
  (inputs.class \in {"GCN", "GCN_Original"} /\ pc \in {"constructed", "failed"}) =>
    /\ (pc = "failed" /\ outcome.exc = "ValueError")
         <=> inputs.activation \notin WellFormedSpecs
    /\ inputs.activation \in WellFormedSpecs => pc = "constructed"

\* the part of C9 that is about the features-free class
C9_GCNConstructionFailsIffMalformed ==
  (inputs.class = "GCN" /\ pc \in {"constructed", "failed"}) =>
    /\ (pc = "failed" /\ outcome.exc = "ValueError")
         <=> inputs.activation \notin WellFormedSpecs
    /\ inputs.activation \in WellFormedSpecs => pc = "constructed"

(***************************************************************************)
(* C10.  Every successful forward call of every variant, whatever lamda,   *)
(* registers exactly one collapse term, after all its spectral terms,      *)
(* equal to collapse_regularization * (norm(cluster_sizes) / n * sqrt(k)   *)
(* - 1), n being the node count the call reads off the primary adjacency   *)
(* (its number of columns).                                                *)
(***************************************************************************)
ExpectedCollapse ==
  LET S == outcome.assignments
      k == layer.n_clusters
      sumsq == RSumTo([j \in 1..k |->
                 LET size == RSumTo([i \in 1..S.shape[1] |-> S.v[i][j]], S.shape[1])
                 IN  RMul(size, size)], k)
      n == inputs.adjacency.shape[2]
      \* sqrt(sumsq) / n * sqrt(k) = sqrt(k * sumsq) / n
      root == Surd(Rat(1, n), RMul(Rat(k, 1), sumsq))
  IN  NumMulRat(NumAddRat(root, Rat(-1, 1)), layer.collapse_regularization)

C10_OneCollapseTermLast ==
  (Called(DMoNKinds) /\ Succeeded) =>
    /\ Len(losses) >= 1
    /\ losses[Len(losses)].term = "collapse"
    /\ \A i \in 1..(Len(losses) - 1) : losses[i].term # "collapse"
    /\ losses[Len(losses)].val = ExpectedCollapse
    /\ Len(losses) = 1 + (IF layer.kind = "DMoN" THEN 1
                          ELSE (IF inputs.lamda # Zero THEN 1 ELSE 0)
                               + (IF inputs.lamda # One THEN 1 ELSE 0))

\* a call with lamda strictly between 0 and 1 that registered two spectral terms
\* and then a collapse term that is not rational
C10_Witness ==
  /\ Called({"fairDMoN"}) /\ Succeeded
  /\ inputs.lamda = Rat(1, 2)
  /\ Len(losses) = 3
  /\ losses[3].term = "collapse"
  /\ losses[3].val.b # Zero

(***************************************************************************)
(* C11.  A successful fairDMoN call registers, in this order: for lamda    *)
(* different from 0 the disparity term |lamda * (red_loss - blue_loss)|,   *)
(* which is not negative; for lamda different from 1 the modularity loss   *)
(* of the primary adjacency with weight exactly 1, a value in which lamda  *)
(* does not occur; and the collapse term.  With lamda different from both  *)
(* these are three terms; at lamda = 0 the disparity term is absent and at *)
(* lamda = 1 the modularity term is absent.                                *)
(***************************************************************************)
C11_FairLedger ==
  (Called({"fairDMoN"}) /\ Succeeded) =>
    LET lam == inputs.lamda
        S == outcome.assignments
        edges == NumberOfEdges(Degrees(inputs.adjacency))
        red_loss == SpectralLoss(inputs.aux1, S, Degrees(inputs.aux1),
                                 NumberOfEdges(Degrees(inputs.aux1)), edges)
        blue_loss == SpectralLoss(inputs.aux2, S, Degrees(inputs.aux2),
                                  NumberOfEdges(Degrees(inputs.aux2)), edges)
        disparity == RAbs(RMul(lam, RSub(red_loss, blue_loss)))
        modularity == SharedSpectralLoss(inputs.adjacency, S)
    IN  /\ Terms(losses) =
             (IF lam # Zero THEN <<"fairness">> ELSE <<>>)
               \o (IF lam # One THEN <<"modularity">> ELSE <<>>)
               \o <<"collapse">>
        /\ lam # Zero =>
             /\ losses[1].val = Num(disparity)
             /\ ~RLess(losses[1].val.a, Zero)
        /\ lam # One =>
             losses[Len(losses) - 1].val = Num(modularity)
        /\ (lam # Zero /\ lam # One) => Len(losses) = 3

\* a call with lamda = 1/2 whose red and blue losses differ and whose modularity
\* loss is a finite nonzero number, so that a weight of 1/2 would show
C11_Witness ==
  /\ Called({"fairDMoN"}) /\ Succeeded
  /\ inputs.lamda = Rat(1, 2)
  /\ Len(losses) = 3
  /\ IsFinite(losses[1].val.a) /\ RLess(Zero, losses[1].val.a)
  /\ IsFinite(losses[2].val.a) /\ losses[2].val.a # Zero

(***************************************************************************)
(* C12.  When an adjacency a successful call computes a spectral loss from *)
(* has no edges (its degrees sum to 0), the call does not divide by that   *)
(* sum: every loss term it registers is a finite number.                   *)
(***************************************************************************)
Edgeless(t) == NumberOfEdges(Degrees(t)) = Zero
\* the call computed a spectral loss from an adjacency without edges
UsedEdgeless ==
  \/ (layer.kind = "DMoN" \/ inputs.lamda # One) /\ Edgeless(inputs.adjacency)
  \/ layer.kind \in BlendedKinds /\ inputs.lamda # Zero
       /\ (Edgeless(inputs.adjacency) \/ Edgeless(inputs.aux1)
             \/ (layer.kind = "fairDMoN" /\ Edgeless(inputs.aux2)))

C12_EdgelessLossesFinite ==
  (Called(DMoNKinds) /\ Succeeded /\ UsedEdgeless) =>
    \A i \in 1..Len(losses) : NumFinite(losses[i].val)
====
